---- MODULE Spec2Model ----
(***************************************************************************)
(* A model of cargo-xbuild's flag resolution (cargo.rs: flags), cache-key  *)
(* contributions (cargo.rs: Rustflags::hash, Profile::hash), flag         *)
(* rendering (cargo.rs: Rustflags::for_xargo) and the locked driver        *)
(* invocation (xargo.rs: run, Home).                                       *)
(*                                                                         *)
(* A string is a sequence of atoms.  An atom is a TLA+ string standing for *)
(* a run of characters that the code never looks inside (a word such as   *)
(* "rustlib"), or for one character the code does look for (" ", ".").    *)
(* String concatenation is \o, so formatting, joining and splitting are   *)
(* computed and not assumed.                                               *)
(***************************************************************************)
EXTENDS Integers, Sequences, FiniteSets

VARIABLES
    \* ---- xargo::run and the Home locks (Spec) ----
    home,        \* Home.path: the sysroot, a sequence of path components
    rustflags,   \* Rustflags.flags handed to run
    allow,       \* the environment: XBUILD_ALLOW_SYSROOT_SPACES is set
    target,      \* cmode.triple() of the invocations of run
    pc,          \* per process: where the invocation stands
    held,        \* the FileLocks that are held now
    lockres,     \* per process: what the two lock_ro calls of run returned
    rendered,    \* per process: what for_xargo returned
    driver,      \* per process: the external driver process
    result,      \* per process: what run returned
    \* ---- the pure functions (SpecFlags, SpecHash, SpecProfile) ----
    phase,       \* "input" before the function is applied, "output" after
    input,       \* the arguments drawn in the initial state
    output       \* what the function returned or fed to the hasher

vars == << home, rustflags, allow, target, pc, held, lockres, rendered,
           driver, result, phase, input, output >>

runVars == << home, rustflags, allow, target, pc, held, lockres, rendered,
              driver, result >>

pureVars == << phase, input, output >>

(***************************************************************************)
(* Bounds                                                                  *)
(***************************************************************************)
NumProcs == 2
MaxFlags == 4

Procs == 1 .. NumProcs

(***************************************************************************)
(* Strings                                                                 *)
(***************************************************************************)
\* str::contains for a one-character pattern
Contains(s, a) == \E i \in DOMAIN s : s[i] = a

\* [String]::join(sep)
RECURSIVE Join(_, _)
Join(strs, sep) ==
    IF strs = << >> THEN << >>
    ELSE IF Len(strs) = 1 THEN strs[1]
    ELSE strs[1] \o sep \o Join(Tail(strs), sep)

\* Path::display of an absolute path given by its components
RECURSIVE Display(_)
Display(path) ==
    IF path = << >> THEN << >>
    ELSE << "/" >> \o path[1] \o Display(Tail(path))

Ok(v) == [kind |-> "ok", value |-> v]
Err(e) == [kind |-> "err", value |-> e]
None == [kind |-> "none", value |-> << >>]

(***************************************************************************)
(* cargo.rs: Rustflags::for_xargo                                          *)
(***************************************************************************)
\* a for_xargo without the check for spaces
ForXargoNoCheck(flags, sysrootPath, allowSpaces) ==
    Ok(Join(flags \o << << "--sysroot" >>, Display(sysrootPath) >>, << " " >>))

ForXargo(flags, sysrootPath, allowSpaces) ==
    LET sysroot == Display(sysrootPath) IN
    IF ~allowSpaces /\ Contains(sysroot, " ")
    THEN Err(<< "Sysroot must not contain spaces!" >> \o sysroot)
    ELSE Ok(Join(flags \o << << "--sysroot" >>, sysroot >>, << " " >>))

(***************************************************************************)
(* xargo.rs: Home                                                          *)
(***************************************************************************)
\* a Home::path that forgets the triple
HomePathShared(homePath, triple) == homePath \o << << "lib" >>, << "rustlib" >> >>

\* Home::path: <sysroot>/lib/rustlib/<triple>
HomePath(homePath, triple) ==
    homePath \o << << "lib" >>, << "rustlib" >>, triple >>

\* flock: a shared lock is granted unless an exclusive one is held on the
\* sentinel; an exclusive lock is granted only when none is held.
CanLock(path, mode) ==
    \A l \in held : l.path = path => (mode = "ro" /\ l.mode = "ro")

Lock(p, slot, triple, mode) ==
    [owner |-> p, slot |-> slot, triple |-> triple,
     path |-> HomePath(home, triple), mode |-> mode]

\* the chained error of lock_ro / lock_rw
LockError(triple, mode) ==
    IF mode = "ro"
    THEN << "couldn't lock " >> \o triple \o << "'s sysroot as read-only" >>
    ELSE << "couldn't lock " >> \o triple \o << "'s sysroot in " >>
         \o Display(HomePath(home, triple)) \o << " as read-write" >>

\* a drop that leaks the handle
DropLockLeak(p, slot) == held

\* one FileLock of p is dropped: its sentinel is unlocked
DropLock(p, slot) == { l \in held : ~(l.owner = p /\ l.slot = slot) }

(***************************************************************************)
(* Inputs of the invocations                                               *)
(***************************************************************************)
Host == << "x86_64-host" >>
Triples == { Host, << "thumbv7m-none-eabi" >> }
Sysroots == { << << "home" >>, << "sysroot" >> >>,
              << << "home" >>, << "my", " ", "sysroot" >> >> }
FlagLists == { << << "-C" >>, << "opt-level=3" >> >> }

\* the exit statuses of the driver: success, and the failure status of cargo
Statuses == { 0, 101 }

\* the tuple `locks` before the calls of line 38
NoLocks == [host |-> None, target |-> None]

Init ==
    /\ home \in Sysroots
    /\ rustflags \in FlagLists
    /\ allow \in BOOLEAN
    /\ target \in Triples
    /\ pc = [p \in Procs |-> "start"]
    /\ held = {}
    /\ lockres = [p \in Procs |-> NoLocks]
    /\ rendered = [p \in Procs |-> None]
    /\ driver = [p \in Procs |-> [state |-> "none", status |-> 0]]
    /\ result = [p \in Procs |-> None]
    /\ phase = "unused"
    /\ input = << >>
    /\ output = << >>

(***************************************************************************)
(* xargo.rs: run                                                           *)
(***************************************************************************)
\* a run that turns a nonzero exit status into an error
RunResultNonzeroIsError(status) ==
    IF status = 0 THEN Ok(status) ELSE Err(<< "driver failed" >>)

\* line 44: Ok(status)
RunResult(status) == Ok(status)

\* line 32: let flags = rustflags.for_xargo(home)?;
Render(p) ==
    /\ pc[p] = "start"
    /\ LET r == ForXargo(rustflags, home, allow) IN
       /\ rendered' = [rendered EXCEPT ![p] = r]
       /\ IF r.kind = "err"
          THEN /\ pc' = [pc EXCEPT ![p] = "returned"]
               /\ result' = [result EXCEPT ![p] = r]
          ELSE /\ pc' = [pc EXCEPT ![p] = "lock_host"]
               /\ UNCHANGED result
    /\ UNCHANGED << home, rustflags, allow, target, held, lockres, driver >>
    /\ UNCHANGED pureVars

\* line 38, first element: home.lock_ro(&meta.host); the Result is stored in
\* the tuple, not inspected
LockHost(p) ==
    /\ pc[p] = "lock_host"
    /\ \/ /\ CanLock(HomePath(home, Host), "ro")
          /\ held' = held \cup { Lock(p, "host", Host, "ro") }
          /\ lockres' = [lockres EXCEPT ![p].host = Ok(<< >>)]
       \/ /\ lockres' = [lockres EXCEPT ![p].host = Err(LockError(Host, "ro"))]
          /\ UNCHANGED held
    /\ pc' = [pc EXCEPT ![p] = "lock_target"]
    /\ UNCHANGED << home, rustflags, allow, target, rendered, driver, result >>
    /\ UNCHANGED pureVars

\* line 38, second element: home.lock_ro(cmode.triple())
LockTarget(p) ==
    /\ pc[p] = "lock_target"
    /\ \/ /\ CanLock(HomePath(home, target), "ro")
          /\ held' = held \cup { Lock(p, "target", target, "ro") }
          /\ lockres' = [lockres EXCEPT ![p].target = Ok(<< >>)]
       \/ /\ lockres' = [lockres EXCEPT ![p].target = Err(LockError(target, "ro"))]
          /\ UNCHANGED held
    /\ pc' = [pc EXCEPT ![p] = "spawn"]
    /\ UNCHANGED << home, rustflags, allow, target, rendered, driver, result >>
    /\ UNCHANGED pureVars

\* line 40: cmd.run_and_get_status(verbose)?  The driver is spawned, or it
\* cannot be, and then `?` returns early: `locks` goes out of scope and is
\* dropped as in line 42.
Spawn(p) ==
    /\ pc[p] = "spawn"
    /\ \/ /\ driver' = [driver EXCEPT ![p].state = "running"]
          /\ pc' = [pc EXCEPT ![p] = "driver"]
       \/ /\ driver' = [driver EXCEPT ![p].state = "failed"]
          /\ pc' = [pc EXCEPT ![p] = "drop_host"]
    /\ UNCHANGED << home, rustflags, allow, target, held, lockres, rendered,
                    result >>
    /\ UNCHANGED pureVars

\* line 40: the driver exits and the blocked wait returns its status, or
\* the wait fails (the child was reaped elsewhere, as when SIGCHLD is
\* ignored) and the status is lost
DriverExit(p) ==
    /\ pc[p] = "driver"
    /\ \/ \E st \in Statuses :
             driver' = [driver EXCEPT ![p] = [state |-> "exited", status |-> st]]
       \/ driver' = [driver EXCEPT ![p].state = "wait_failed"]
    /\ pc' = [pc EXCEPT ![p] = "drop_host"]
    /\ UNCHANGED << home, rustflags, allow, target, held, lockres, rendered,
                    result >>
    /\ UNCHANGED pureVars

\* line 42 (and the scope exit of the early return): the tuple is dropped
\* field by field, the Result of the host lock first
DropHost(p) ==
    /\ pc[p] = "drop_host"
    /\ held' = DropLock(p, "host")
    /\ pc' = [pc EXCEPT ![p] = "drop_target"]
    /\ UNCHANGED << home, rustflags, allow, target, lockres, rendered, driver,
                    result >>
    /\ UNCHANGED pureVars

\* lines 42-44: the Result of the target lock is dropped and run returns:
\* Ok(status), or the error of run_and_get_status
Return(p) ==
    /\ pc[p] = "drop_target"
    /\ held' = DropLock(p, "target")
    /\ result' = [result EXCEPT ![p] =
                     IF driver[p].state = "exited"
                     THEN RunResult(driver[p].status)
                     ELSE Err(<< "failed to execute" >>)]
    /\ pc' = [pc EXCEPT ![p] = "returned"]
    /\ UNCHANGED << home, rustflags, allow, target, lockres, rendered, driver >>
    /\ UNCHANGED pureVars

(***************************************************************************)
(* Another invocation that takes one lock of Home directly (the sysroot    *)
(* builder takes lock_rw on the triple it rebuilds) and lets it go when    *)
(* its scope ends.  One whose lock_ro / lock_rw fails holds nothing and    *)
(* takes no further part.                                                  *)
(***************************************************************************)
ClientLock(p) ==
    /\ pc[p] = "start"
    /\ \E triple \in Triples, mode \in { "ro", "rw" } :
          /\ CanLock(HomePath(home, triple), mode)
          /\ held' = held \cup { Lock(p, "client", triple, mode) }
    /\ pc' = [pc EXCEPT ![p] = "client"]
    /\ UNCHANGED << home, rustflags, allow, target, lockres, rendered, driver,
                    result >>
    /\ UNCHANGED pureVars

ClientDrop(p) ==
    /\ pc[p] = "client"
    /\ held' = DropLock(p, "client")
    /\ pc' = [pc EXCEPT ![p] = "client_done"]
    /\ UNCHANGED << home, rustflags, allow, target, lockres, rendered, driver,
                    result >>
    /\ UNCHANGED pureVars

Next ==
    \E p \in Procs :
        \/ Render(p)
        \/ LockHost(p)
        \/ LockTarget(p)
        \/ Spawn(p)
        \/ DriverExit(p)
        \/ DropHost(p)
        \/ Return(p)
        \/ ClientLock(p)
        \/ ClientDrop(p)

Spec == Init /\ [][Next]_vars

(***************************************************************************)
(* The pure functions take their arguments from `input` and leave their    *)
(* result in `output`; the variables of run stay as they are.              *)
(***************************************************************************)
RunUnused ==
    /\ home = << >>
    /\ rustflags = << >>
    /\ allow = FALSE
    /\ target = << >>
    /\ pc = << >>
    /\ held = {}
    /\ lockres = << >>
    /\ rendered = << >>
    /\ driver = << >>
    /\ result = << >>

(***************************************************************************)
(* toml::Value, as far as flags and Profile::hash look at it               *)
(***************************************************************************)
\* A Value is a string, a boolean (kept as its text), an array of Values or
\* a table: the entries of a BTreeMap, in the order of their keys.
Str(s) == [tag |-> "str", text |-> s, items |-> << >>, entries |-> << >>]
Bool(s) == [tag |-> "bool", text |-> s, items |-> << >>, entries |-> << >>]
Array(items) == [tag |-> "arr", text |-> << >>, items |-> items, entries |-> << >>]
Table(entries) == [tag |-> "tbl", text |-> << >>, items |-> << >>, entries |-> entries]
Null == [tag |-> "null", text |-> << >>, items |-> << >>, entries |-> << >>]
Entry(key, value) == [key |-> key, value |-> value]

\* Option<&Value>
Some(v) == [some |-> TRUE, v |-> v]
Nothing == [some |-> FALSE, v |-> Null]

\* Option<usize>
\* the usize of Some is kept as its decimal numeral, without leading zeros
SomeIndex(n) == [some |-> TRUE, n |-> n]
NoIndex == [some |-> FALSE, n |-> << >>]

\* BTreeMap::get
TableGet(entries, key) ==
    IF \E i \in DOMAIN entries : entries[i].key = key
    THEN Some(entries[CHOOSE i \in DOMAIN entries : entries[i].key = key].value)
    ELSE Nothing

\* the decimal digits, each an atom of its own
Digits == << "0", "1", "2", "3", "4", "5", "6", "7", "8", "9" >>
IsDigit(a) == \E i \in DOMAIN Digits : Digits[i] = a
DigitValue(a) == (CHOOSE i \in DOMAIN Digits : Digits[i] = a) - 1

RECURSIVE DecimalValue(_, _)
DecimalValue(digits, acc) ==
    IF digits = << >> THEN acc
    ELSE DecimalValue(Tail(digits), acc * 10 + DigitValue(digits[1]))

RECURSIVE StripZeros(_)
StripZeros(digits) ==
    IF digits # << >> /\ digits[1] = "0" THEN StripZeros(Tail(digits))
    ELSE digits

\* usize::MAX of a 64-bit target, 18446744073709551615
UsizeMax ==
    << "1", "8", "4", "4", "6", "7", "4", "4", "0", "7", "3", "7", "0", "9",
       "5", "5", "1", "6", "1", "5" >>

\* a > b, for numerals of the same length
RECURSIVE NumeralGreater(_, _)
NumeralGreater(a, b) ==
    IF a = << >> THEN FALSE
    ELSE IF a[1] # b[1] THEN DigitValue(a[1]) > DigitValue(b[1])
    ELSE NumeralGreater(Tail(a), Tail(b))

\* the number does not fit a usize
Overflows(numeral) ==
    \/ Len(numeral) > Len(UsizeMax)
    \/ Len(numeral) = Len(UsizeMax) /\ NumeralGreater(numeral, UsizeMax)

\* str::parse::<usize>: an optional "+" and then one or more decimal
\* digits, leading zeros allowed; None when the number overflows
ParseUsize(key) ==
    LET digits == IF key # << >> /\ key[1] = "+" THEN Tail(key) ELSE key
        stripped == StripZeros(digits)
        numeral == IF stripped = << >> THEN << "0" >> ELSE stripped
    IN  IF digits = << >> \/ \E i \in DOMAIN digits : ~IsDigit(digits[i])
        THEN NoIndex
        ELSE IF Overflows(numeral) THEN NoIndex
        ELSE SomeIndex(numeral)

\* slice::get(idx): the index is inside the array.  A numeral of ten digits
\* or more is past the end of every array of the model.
InArray(numeral, items) ==
    Len(numeral) <= 9 /\ DecimalValue(numeral, 0) < Len(items)

\* char::is_whitespace: the code points with the Unicode property
\* White_Space, each an atom of its own; those that cannot be written in a
\* string are named by their code point
WhiteSpace ==
    { "\t", "\n", "U+000B", "\f", "\r", " ", "U+0085", "U+00A0", "U+1680",
      "U+2000", "U+2001", "U+2002", "U+2003", "U+2004", "U+2005", "U+2006",
      "U+2007", "U+2008", "U+2009", "U+200A", "U+2028", "U+2029", "U+202F",
      "U+205F", "U+3000" }

\* the characters a key may hold without quotes: the letters and digits of
\* ASCII, "-" and "_"
BareChars ==
    { "a", "b", "c", "d", "e", "f", "g", "h", "i", "j", "k", "l", "m", "n",
      "o", "p", "q", "r", "s", "t", "u", "v", "w", "x", "y", "z",
      "A", "B", "C", "D", "E", "F", "G", "H", "I", "J", "K", "L", "M", "N",
      "O", "P", "Q", "R", "S", "T", "U", "V", "W", "X", "Y", "Z",
      "0", "1", "2", "3", "4", "5", "6", "7", "8", "9", "-", "_" }

\* An atom is bare when it is a word of bare characters.  Every other
\* character is an atom of its own, and one named by its code point (white
\* space, control characters, characters outside ASCII) is never bare.
IsBare(a) ==
    Len(a) > 0 /\ \A i \in 1 .. Len(a) : SubSeq(a, i, i) \in BareChars

\* the result of a step of the parser of paths
Parsed(name, rest) == [ok |-> TRUE, name |-> name, rest |-> rest]
NotParsed == [ok |-> FALSE, name |-> << >>, rest |-> << >>]

\* Parser::ws: blanks and tabs are skipped
RECURSIVE SkipWs(_)
SkipWs(s) ==
    IF s # << >> /\ s[1] \in { " ", "\t" } THEN SkipWs(Tail(s)) ELSE s

\* the character an escape of a basic string stands for; the letter of an
\* escape is an atom of its own (escapes by code point are not modelled)
Escapes ==
    << << "b", "U+0008" >>, << "t", "\t" >>, << "n", "\n" >>, << "f", "\f" >>,
       << "r", "\r" >>, << "\"", "\"" >>, << "\\", "\\" >> >>
IsEscape(a) == \E i \in DOMAIN Escapes : Escapes[i][1] = a
Unescape(a) == Escapes[CHOOSE i \in DOMAIN Escapes : Escapes[i][1] = a][2]

\* the control characters a basic string may not hold
ControlAtoms == { "U+0008", "\t", "\n", "U+000B", "\f", "\r" }

\* a key in double quotes, after the opening quote: up to the closing
\* quote, escapes replaced; a wrong escape or a control character is
\* recorded as an error and left out; without closing quote there is no key
RECURSIVE BasicString(_, _)
BasicString(s, acc) ==
    IF s = << >> THEN NotParsed
    ELSE IF s[1] = "\"" THEN Parsed(acc, Tail(s))
    ELSE IF s[1] = "\\"
         THEN IF Len(s) = 1 THEN NotParsed
              ELSE IF IsEscape(s[2])
              THEN BasicString(Tail(Tail(s)), Append(acc, Unescape(s[2])))
              ELSE BasicString(Tail(Tail(s)), acc)
    ELSE IF s[1] \in ControlAtoms THEN BasicString(Tail(s), acc)
    ELSE BasicString(Tail(s), Append(acc, s[1]))

\* Parser::newline: a line feed, or a carriage return and a line feed
AtNewline(s) ==
    \/ s # << >> /\ s[1] = "\n"
    \/ Len(s) > 1 /\ s[1] = "\r" /\ s[2] = "\n"

\* a key in single quotes, after the opening quote: verbatim up to the
\* closing quote; with a newline inside, or without closing quote, there
\* is no key
RECURSIVE LiteralString(_, _)
LiteralString(s, acc) ==
    IF s = << >> \/ AtNewline(s) THEN NotParsed
    ELSE IF s[1] = "'" THEN Parsed(acc, Tail(s))
    ELSE LiteralString(Tail(s), Append(acc, s[1]))

\* a key without quotes: the longest run of bare characters
RECURSIVE BareKey(_, _)
BareKey(s, acc) ==
    IF s = << >> \/ ~IsBare(s[1]) THEN Parsed(acc, s)
    ELSE BareKey(Tail(s), Append(acc, s[1]))

\* Parser::key_name: a quoted or a bare key, which may not be empty
KeyName(s) ==
    LET key == IF s # << >> /\ s[1] = "\"" THEN BasicString(Tail(s), << >>)
               ELSE IF s # << >> /\ s[1] = "'" THEN LiteralString(Tail(s), << >>)
               ELSE BareKey(s, << >>)
    IN  IF key.ok /\ key.name # << >> THEN key ELSE NotParsed

\* Parser::lookup: keys separated by ".", blanks around them skipped; the
\* keys read so far are the path when what follows a key is no "."
RECURSIVE PathKeys(_, _)
PathKeys(s, keys) ==
    LET key == KeyName(SkipWs(s))
        rest == SkipWs(key.rest)
    IN  IF ~key.ok THEN [ok |-> FALSE, keys |-> << >>]
        ELSE IF rest # << >> /\ rest[1] = "."
        THEN PathKeys(Tail(rest), Append(keys, key.name))
        ELSE [ok |-> TRUE, keys |-> Append(keys, key.name)]

\* the keys of a path; the empty path has none
ParsePath(path) ==
    IF path = << >> THEN [ok |-> TRUE, keys |-> << >>]
    ELSE PathKeys(path, << >>)

\* toml::Value::lookup on the keys of a path: a table is entered by key,
\* an array by index
RECURSIVE LookupKeys(_, _)
LookupKeys(value, keys) ==
    IF keys = << >> THEN Some(value)
    ELSE IF value.tag = "tbl"
         THEN LET found == TableGet(value.entries, keys[1]) IN
              IF found.some
              THEN LookupKeys(found.v, Tail(keys))
              ELSE Nothing
    ELSE IF value.tag = "arr"
         THEN LET idx == ParseUsize(keys[1]) IN
              IF idx.some /\ InArray(idx.n, value.items)
              THEN LookupKeys(value.items[DecimalValue(idx.n, 0) + 1],
                              Tail(keys))
              ELSE Nothing
    ELSE Nothing

\* toml::Value::lookup: the path is parsed as a dotted key; a path that
\* does not parse finds nothing
Lookup(value, path) ==
    LET parsed == ParsePath(path) IN
    IF parsed.ok THEN LookupKeys(value, parsed.keys) ELSE Nothing

(***************************************************************************)
(* cargo.rs: flags                                                         *)
(***************************************************************************)
\* char::is_whitespace
IsWhitespace(a) == a \in WhiteSpace

\* str::split_whitespace
RECURSIVE SplitWhitespace(_, _)
SplitWhitespace(s, cur) ==
    IF s = << >> THEN (IF cur = << >> THEN << >> ELSE << cur >>)
    ELSE IF IsWhitespace(s[1])
         THEN (IF cur = << >> THEN << >> ELSE << cur >>)
              \o SplitWhitespace(Tail(s), << >>)
    ELSE SplitWhitespace(Tail(s), Append(cur, s[1]))

\* str::to_uppercase, on the atoms of a tool name
UpperAtom(a) == IF a = "rustflags" THEN "RUSTFLAGS" ELSE a
ToUppercase(s) == [i \in DOMAIN s |-> UpperAtom(s[i])]

\* format!("target.{}.{}", target, tool) and format!("build.{}", tool)
TargetKey(triple, tool) == << "target", "." >> \o triple \o << "." >> \o tool
BuildKey(tool) == << "build", "." >> \o tool

\* lines 96-107: the strings of the array, or the error flag
RECURSIVE CollectStrings(_, _)
CollectStrings(items, acc) ==
    IF items = << >> THEN [error |-> FALSE, flags |-> acc]
    ELSE IF items[1].tag = "str"
         THEN CollectStrings(Tail(items), Append(acc, items[1].text))
    ELSE [error |-> TRUE, flags |-> acc]

\* Result<Vec<String>>
FlagsOk(flags) == [kind |-> "ok", flags |-> flags, error |-> << >>]
FlagsErr(error) == [kind |-> "err", flags |-> << >>, error |-> error]

\* env::var_os on the variables that are set, a list of names and values
EnvVar(env, name) ==
    IF \E i \in DOMAIN env : env[i].name = name
    THEN [set |-> TRUE,
          value |-> env[CHOOSE i \in DOMAIN env : env[i].name = name].value]
    ELSE [set |-> FALSE, value |-> << >>]

MustBeArray(key) ==
    << ".cargo/config: " >> \o key \o << " must be an array of strings" >>

\* lines 93-125: the matched entry must be an array of strings
EntryFlags(array, build, triple, tool) ==
    LET got == IF array.tag = "arr"
               THEN CollectStrings(array.items, << >>)
               ELSE [error |-> TRUE, flags |-> << >>]
    IN  IF got.error
        THEN IF build
             THEN FlagsErr(MustBeArray(BuildKey(tool)))
             ELSE FlagsErr(MustBeArray(TargetKey(triple, tool)))
        ELSE FlagsOk(got.flags)

\* lines 74-132.  env lists the variables that are set; config is Nothing
\* or Some(the table of .cargo/config).
Flags(env, config, triple, tool) ==
    IF EnvVar(env, ToUppercase(tool)).set
    THEN FlagsOk(SplitWhitespace(EnvVar(env, ToUppercase(tool)).value, << >>))
    ELSE IF config.some
    THEN LET scoped == Lookup(config.v, TargetKey(triple, tool))
             build == ~scoped.some
             array == IF scoped.some THEN scoped
                      ELSE Lookup(config.v, BuildKey(tool))
         IN  IF array.some
             THEN EntryFlags(array.v, build, triple, tool)
             ELSE FlagsOk(<< >>)
    ELSE FlagsOk(<< >>)

(***************************************************************************)
(* SpecFlags: flags applied to an environment, a config and a triple       *)
(***************************************************************************)
Tool == << "rustflags" >>

\* RUSTFLAGS is unset, or set to one of these
EnvValues == { << "foo", " ", "bar" >>,
               << " ", "-C", "\t", " ", "opt-level=3", "\n" >>,
               << "a", "\r", "b", "U+00A0", "\f", "c", "U+3000" >>,
               << " " >> }
Envs == { << >> } \cup
        { << [name |-> ToUppercase(Tool), value |-> v] >> : v \in EnvValues }

\* what a config may hold under a rustflags key
EntryValues == { Array(<< Str(<< "-x" >>) >>),
                 Array(<< Str(<< "-y" >>) >>),
                 Array(<< >>),
                 Str(<< "-x" >>),
                 Array(<< Str(<< "-x" >>), Bool(<< "true" >>), Str(<< "-z" >>) >>) }
EntryOptions == { Nothing } \cup { Some(e) : e \in EntryValues }

MyTriple == << "mytriple" >>
OtherTriple == << "other" >>
\* a target-description file in the current directory
JsonTriple == << "my-target", ".", "json" >>
\* a triple that reads as an array index
IndexTriple == << "0", "1" >>
\* the file name in double quotes
QuotedTriple == << "\"", "my-target", ".", "json", "\"" >>
\* triples with a character no bare key may hold
PlusTriple == << "+", "1" >>
SpacedTriple == << "my-target", " ", "x" >>
QueryTriples ==
    { MyTriple, OtherTriple, JsonTriple, IndexTriple, QuotedTriple,
      PlusTriple, SpacedTriple }

\* the keys a config may have under [target]: [target.mytriple],
\* [target."my-target.json"] and the nested [target.my-target.json]
ConfigTargetKeys == { MyTriple, JsonTriple, << "my-target" >> }

ScopedTable(key, entry) ==
    IF key = << "my-target" >>
    THEN Table(<< Entry(<< "json" >>, Table(<< Entry(Tool, entry) >>)) >>)
    ELSE Table(<< Entry(Tool, entry) >>)

\* the keys in the order a BTreeMap keeps them
ConfigTargetKeyOrder == << << "my-target" >>, JsonTriple, MyTriple >>

RECURSIVE ScopedEntries(_, _)
ScopedEntries(scoped, keys) ==
    IF keys = << >> THEN << >>
    ELSE (IF scoped[keys[1]].some
          THEN << Entry(keys[1], ScopedTable(keys[1], scoped[keys[1]].v)) >>
          ELSE << >>)
         \o ScopedEntries(scoped, Tail(keys))

ConfigTable(scoped, build) ==
    LET targets == ScopedEntries(scoped, ConfigTargetKeyOrder) IN
    Table((IF build.some
           THEN << Entry(<< "build" >>, Table(<< Entry(Tool, build.v) >>)) >>
           ELSE << >>)
          \o (IF targets = << >>
              THEN << >>
              ELSE << Entry(<< "target" >>, Table(targets)) >>))

\* a config whose `target` is an array of tables ([[target]])
ArrayConfigTable(second, build) ==
    Table((IF build.some
           THEN << Entry(<< "build" >>, Table(<< Entry(Tool, build.v) >>)) >>
           ELSE << >>)
          \o << Entry(<< "target" >>,
                      Array(<< Table(<< Entry(Tool, Array(<< Str(<< "-x" >>) >>)) >>),
                               Table(<< Entry(Tool, second) >>) >>)) >>)

Configs ==
    { Nothing } \cup
    { Some(ConfigTable(scoped, build)) :
        scoped \in [ConfigTargetKeys -> EntryOptions], build \in EntryOptions }
    \cup
    { Some(ArrayConfigTable(second, build)) :
        second \in EntryValues, build \in EntryOptions }

InitFlags ==
    /\ RunUnused
    /\ phase = "input"
    /\ input \in [env : Envs, config : Configs, triple : QueryTriples]
    /\ output = FlagsOk(<< >>)

ResolveFlags ==
    /\ phase = "input"
    /\ output' = Flags(input.env, input.config, input.triple, Tool)
    /\ phase' = "output"
    /\ UNCHANGED input
    /\ UNCHANGED runVars

NextFlags == ResolveFlags

SpecFlags == InitFlags /\ [][NextFlags]_vars

(***************************************************************************)
(* Claims about flags, checked under SpecFlags                             *)
(***************************************************************************)
\* the value stored under one key of a table, the key taken whole
Child(parent, key) ==
    IF parent.some /\ parent.v.tag = "tbl"
    THEN TableGet(parent.v.entries, key)
    ELSE Nothing

\* the entries target.<triple>.<tool> and build.<tool> of the config tree
ScopedEntry(config, triple) ==
    Child(Child(Child(config, << "target" >>), triple), Tool)
BuildEntry(config) == Child(Child(config, << "build" >>), Tool)

WellFormed(entry) ==
    entry.tag = "arr" /\ \A i \in DOMAIN entry.items : entry.items[i].tag = "str"
StringsOf(entry) == [i \in DOMAIN entry.items |-> entry.items[i].text]

IsOk(r, flags) == r.kind = "ok" /\ r.flags = flags /\ r.error = << >>
IsErr(r, error) == r.kind = "err" /\ r.error = error /\ r.flags = << >>

RECURSIVE Concat(_)
Concat(strs) == IF strs = << >> THEN << >> ELSE strs[1] \o Concat(Tail(strs))

\* tokens are the maximal whitespace-free runs of s, in order
TokensOf(s, tokens) ==
    /\ \A i \in DOMAIN tokens :
          tokens[i] # << >> /\ \A j \in DOMAIN tokens[i] : ~IsWhitespace(tokens[i][j])
    /\ Concat(tokens) = SelectSeq(s, LAMBDA a : ~IsWhitespace(a))
    /\ Len(tokens) = Cardinality({ i \in DOMAIN s :
                         ~IsWhitespace(s[i]) /\ (i = 1 \/ IsWhitespace(s[i - 1])) })

EnvSet == \E i \in DOMAIN input.env : input.env[i].name = << "RUSTFLAGS" >>

\* C5: flags resolves from one source by precedence: the environment
\* variable when set; else the array at target.<triple>.<tool>; else the
\* array at build.<tool>; else the empty list.  For every triple.
C5_Precedence ==
    phase = "output" =>
        LET scoped == ScopedEntry(input.config, input.triple)
            build == BuildEntry(input.config)
        IN  IF EnvSet
            THEN output.kind = "ok"
                 /\ TokensOf(input.env[1].value, output.flags)
            ELSE IF scoped.some
            THEN WellFormed(scoped.v) => IsOk(output, StringsOf(scoped.v))
            ELSE IF build.some
            THEN WellFormed(build.v) => IsOk(output, StringsOf(build.v))
            ELSE IsOk(output, << >>)

\* C6: with the variable unset, when the matched entry (the entry at
\* target.<triple>.<tool> when the config has it, else the one at
\* build.<tool>) is not an array of strings, flags returns the error that
\* names that key and no flags; a malformed target-scoped entry is an
\* error whatever build.<tool> holds; and nothing else is an error.
C6_MalformedEntry ==
    (phase = "output" /\ ~EnvSet) =>
        LET scoped == ScopedEntry(input.config, input.triple)
            build == BuildEntry(input.config)
            scopedBad == scoped.some /\ ~WellFormed(scoped.v)
            buildBad == ~scoped.some /\ build.some /\ ~WellFormed(build.v)
        IN  /\ scopedBad =>
                  IsErr(output, << ".cargo/config: ", "target", "." >>
                                    \o input.triple
                                    \o << ".", "rustflags",
                                          " must be an array of strings" >>)
            /\ buildBad =>
                  IsErr(output, << ".cargo/config: ", "build", ".", "rustflags",
                                   " must be an array of strings" >>)
            /\ output.kind = "err" => (scopedBad \/ buildBad)

(***************************************************************************)
(* cargo.rs: Rustflags::hash.  The hasher is the sequence of the strings   *)
(* written to it.                                                          *)
(***************************************************************************)
\* str::starts_with
StartsWith(s, prefix) ==
    Len(s) >= Len(prefix) /\ SubSeq(s, 1, Len(prefix)) = prefix

IsLinkArg(flag) ==
    StartsWith(flag, << "link-arg=" >>) \/ StartsWith(flag, << "link-args=" >>)

\* a hash that feeds every flag to the hasher
HashAll(flags) == flags

\* lines 24-41: the loop over the iterator, which the "-C" arm advances a
\* second time
RECURSIVE Hash(_)
Hash(flags) ==
    IF flags = << >> THEN << >>
    ELSE LET flag == Head(flags)
             rest == Tail(flags)
         IN  IF flag = << "-C" >>
             THEN IF rest # << >>
                  THEN IF IsLinkArg(Head(rest))
                       THEN Hash(Tail(rest))
                       ELSE << flag, Head(rest) >> \o Hash(Tail(rest))
                  ELSE << flag >>
             ELSE << flag >> \o Hash(rest)

(***************************************************************************)
(* SpecHash: Rustflags::hash applied to a list of flags                    *)
(***************************************************************************)
Tokens == { << "-C" >>,
            << "link-arg=", "-Tlink.x" >>,
            << "link-arg=", "-nostartfiles" >>,
            << "link-args=", "-Tlink.x" >>,
            << "opt-level=3" >>,
            << "link-arg" >> }

RECURSIVE SeqsUpTo(_, _)
SeqsUpTo(S, n) ==
    IF n = 0 THEN { << >> }
    ELSE LET shorter == SeqsUpTo(S, n - 1) IN
         shorter \cup { Append(q, x) : q \in shorter, x \in S }

InitHash ==
    /\ RunUnused
    /\ phase = "input"
    /\ input \in SeqsUpTo(Tokens, MaxFlags)
    /\ output = << >>

HashFlags ==
    /\ phase = "input"
    /\ output' = Hash(input)
    /\ phase' = "output"
    /\ UNCHANGED input
    /\ UNCHANGED runVars

NextHash == HashFlags

SpecHash == InitHash /\ [][NextHash]_vars

(***************************************************************************)
(* Claims about Rustflags::hash, checked under SpecHash                    *)
(***************************************************************************)
Replace(flags, i, v) == [flags EXCEPT ![i] = v]

\* a "-C" at i with a linker argument right after it
LinkerPairAt(flags, i) ==
    /\ i \in 1 .. Len(flags) - 1
    /\ flags[i] = << "-C" >>
    /\ IsLinkArg(flags[i + 1])

\* how many "-C" stand in a row right before position i
MarkersBefore(flags, i) ==
    CHOOSE k \in 0 .. i - 1 :
        /\ \A j \in i - k .. i - 1 : flags[j] = << "-C" >>
        /\ (i - k = 1 \/ flags[i - k - 1] # << "-C" >>)

\* the pair at i whose "-C" is not the argument of a "-C" before it
ScannedPairAt(flags, i) ==
    LinkerPairAt(flags, i) /\ MarkersBefore(flags, i) % 2 = 0

LinkArgs == { t \in Tokens : IsLinkArg(t) }

\* C7 as claimed: the tokens fed to the hasher stay the same when the value
\* of a "-C" "link-arg..." pair changes, wherever the pair stands, and
\* change when a token outside the pairs changes.
C7_AnyPairIgnored ==
    phase = "output" =>
        /\ \A i \in DOMAIN input :
              LinkerPairAt(input, i) =>
                  \A v \in LinkArgs : Hash(Replace(input, i + 1, v)) = output
        /\ \A j \in DOMAIN input :
              (~LinkerPairAt(input, j) /\ ~LinkerPairAt(input, j - 1)) =>
                  \A v \in Tokens \ { input[j] } :
                      Hash(Replace(input, j, v)) # output

\* C7 amended: the tokens fed to the hasher stay the same when the value of
\* a "-C" "link-arg..." pair changes, if an even number of "-C" (none
\* counts) stand in a row right before the pair's "-C"; and they change
\* when a token outside those pairs changes.
C7_ScannedPairIgnored ==
    phase = "output" =>
        /\ \A i \in DOMAIN input :
              ScannedPairAt(input, i) =>
                  \A v \in LinkArgs : Hash(Replace(input, i + 1, v)) = output
        /\ \A j \in DOMAIN input :
              (~ScannedPairAt(input, j) /\ ~ScannedPairAt(input, j - 1)) =>
                  \A v \in Tokens \ { input[j] } :
                      Hash(Replace(input, j, v)) # output

\* two "-C" in a row, hashed as a unit, then a "-C" "link-arg=..." pair that
\* is left out
C7_Witness ==
    /\ phase = "output"
    /\ input = << << "-C" >>, << "-C" >>, << "-C" >>, << "link-arg=", "-Tlink.x" >> >>
    /\ output = << << "-C" >>, << "-C" >> >>

(***************************************************************************)
(* cargo.rs: Profile::hash                                                 *)
(***************************************************************************)
\* Key: the parts joined by ".", a part in quotes unless it is bare
\* write_str: the string in double quotes, with the backspace, the tab,
\* the line feed, the form feed, the carriage return, the double quote and
\* the backslash written as escapes
IsEscaped(a) == \E i \in DOMAIN Escapes : Escapes[i][2] = a
EscapeOf(a) == Escapes[CHOOSE i \in DOMAIN Escapes : Escapes[i][2] = a][1]

RECURSIVE EscapeAll(_)
EscapeAll(text) ==
    IF text = << >> THEN << >>
    ELSE (IF IsEscaped(text[1]) THEN << "\\", EscapeOf(text[1]) >>
          ELSE << text[1] >>)
         \o EscapeAll(Tail(text))

WriteStr(text) == << "\"" >> \o EscapeAll(text) \o << "\"" >>

RECURSIVE KeyPath(_)
KeyPath(stack) ==
    IF stack = << >> THEN << >>
    ELSE (IF \A i \in DOMAIN stack[1] : IsBare(stack[1][i])
          THEN stack[1]
          ELSE WriteStr(stack[1]))
         \o (IF Len(stack) > 1 THEN << "." >> ELSE << >>)
         \o KeyPath(Tail(stack))

\* a value printed under a [header] or [[header]] of its own
IsSection(value) ==
    \/ value.tag = "tbl"
    \/ value.tag = "arr" /\ value.items # << >> /\ value.items[1].tag = "tbl"

RECURSIVE ToString(_)
RECURSIVE PrintTable(_, _)

\* Value::to_string (Display).  PrintTable is the printer of a table: first
\* the `key = value` lines of the entries that are no sections, then the
\* sections, each under its header, with an empty line before a header
\* unless it is the first thing printed for the first entry.
ToString(value) ==
    LET RECURSIVE Items(_)
        Items(items) ==
            IF items = << >> THEN << >>
            ELSE ToString(items[1])
                 \o (IF Len(items) > 1 THEN << ", " >> ELSE << >>)
                 \o Items(Tail(items))
    IN  IF value.tag = "str" THEN WriteStr(value.text)
        ELSE IF value.tag = "bool" THEN value.text
        ELSE IF value.tag = "arr" THEN << "[" >> \o Items(value.items) \o << "]" >>
        ELSE PrintTable(value.entries, << >>)

PrintTable(entries, stack) ==
    LET spaceOutFirst == \E i \in DOMAIN entries : ~IsSection(entries[i].value)
        RECURSIVE Lines(_)
        Lines(i) ==
            IF i > Len(entries) THEN << >>
            ELSE (IF IsSection(entries[i].value) THEN << >>
                  ELSE KeyPath(<< entries[i].key >>) \o << " = " >>
                       \o ToString(entries[i].value) \o << "\n" >>)
                 \o Lines(i + 1)
        RECURSIVE Tables(_, _, _)
        Tables(i, path, j) ==
            LET inner == entries[i].value.items IN
            IF j > Len(inner) THEN << >>
            ELSE (IF spaceOutFirst \/ i # 1 \/ j # 1 THEN << "\n" >> ELSE << >>)
                 \o << "[[" >> \o KeyPath(path) \o << "]]", "\n" >>
                 \o PrintTable(inner[j].entries, path)
                 \o Tables(i, path, j + 1)
        RECURSIVE Sections(_)
        Sections(i) ==
            IF i > Len(entries) THEN << >>
            ELSE LET v == entries[i].value
                     path == Append(stack, entries[i].key)
                 IN  (IF v.tag = "tbl"
                      THEN (IF spaceOutFirst \/ i # 1 THEN << "\n" >> ELSE << >>)
                           \o << "[" >> \o KeyPath(path) \o << "]", "\n" >>
                           \o PrintTable(v.entries, path)
                      ELSE IF IsSection(v) THEN Tables(i, path, 1)
                      ELSE << >>)
                     \o Sections(i + 1)
    IN  Lines(1) \o Sections(1)

\* BTreeMap::remove
TableRemove(entries, key) == SelectSeq(entries, LAMBDA e : e.key # key)

\* a hash that leaves `lto` in
ProfileHashKeepsLto(table) ==
    IF table.tag = "tbl" /\ table.entries = << >>
    THEN [table |-> table, writes |-> << >>]
    ELSE [table |-> table, writes |-> << ToString(table) >>]

\* lines 195-213: what is written to the hasher, and the caller's table
\* afterwards (the code works on a clone)
ProfileHash(table) ==
    LET v == IF table.tag = "tbl"
             THEN Table(TableRemove(table.entries, << "lto" >>))
             ELSE table
    IN  IF v.tag = "tbl" /\ v.entries = << >>
        THEN [table |-> table, writes |-> << >>]
        ELSE [table |-> table, writes |-> << ToString(v) >>]

(***************************************************************************)
(* SpecProfile: Profile::hash applied to a profile.release value           *)
(***************************************************************************)
\* the scalar keys, in the order a BTreeMap keeps them
ProfileKeyOrder == << << "debug" >>, << "lto" >>, << "opt-level" >>, << "panic" >> >>
ProfileKeys == { ProfileKeyOrder[i] : i \in DOMAIN ProfileKeyOrder }
ProfileValues == { Bool(<< "true" >>), Str(<< "thin" >>) }
ProfileOptions == { Nothing } \cup { Some(v) : v \in ProfileValues }

RECURSIVE ProfileEntries(_, _)
ProfileEntries(choice, keys) ==
    IF keys = << >> THEN << >>
    ELSE (IF choice[keys[1]].some
          THEN << Entry(keys[1], choice[keys[1]].v) >>
          ELSE << >>)
         \o ProfileEntries(choice, Tail(keys))

\* [profile.release.build-override], a table inside the profile with an
\* `lto` of its own; its key sorts before the scalar keys
NestedOptions ==
    { Nothing,
      Some(Table(<< Entry(<< "lto" >>, Bool(<< "true" >>)) >>)),
      Some(Table(<< Entry(<< "lto" >>, Bool(<< "true" >>)),
                    Entry(<< "opt-level" >>, Str(<< "thin" >>)) >>)) }

ProfileTables ==
    { Table((IF nested.some
             THEN << Entry(<< "build-override" >>, nested.v) >>
             ELSE << >>)
            \o ProfileEntries(choice, ProfileKeyOrder)) :
        choice \in [ProfileKeys -> ProfileOptions], nested \in NestedOptions }

\* profile.release may also hold something that is not a table
Profiles == ProfileTables \cup { Str(<< "thin" >>), Array(<< >>) }

InitProfile ==
    /\ RunUnused
    /\ phase = "input"
    /\ input \in Profiles
    /\ output = [table |-> Null, writes |-> << >>]

HashProfile ==
    /\ phase = "input"
    /\ output' = ProfileHash(input)
    /\ phase' = "output"
    /\ UNCHANGED input
    /\ UNCHANGED runVars

NextProfile == HashProfile

SpecProfile == InitProfile /\ [][NextProfile]_vars

(***************************************************************************)
(* Claims about Profile::hash, checked under SpecProfile                   *)
(***************************************************************************)
\* the entries of a table other than top-level `lto`
OtherThanLto(profile) ==
    SelectSeq(profile.entries, LAMBDA e : e.key # << "lto" >>)

\* C8: profiles that differ only in top-level `lto` write the same to the
\* hasher; nothing is written exactly when no entry but `lto` is there;
\* otherwise the one string written is the tree without `lto`, serialized;
\* and the caller's tree is as it was.
C8_LtoIgnored ==
    (phase = "output" /\ input.tag = "tbl") =>
        /\ \A other \in ProfileTables :
              OtherThanLto(other) = OtherThanLto(input) =>
                  ProfileHash(other).writes = output.writes
        /\ output.writes = << >> <=> OtherThanLto(input) = << >>
        /\ output.writes # << >> =>
              output.writes = << ToString(Table(OtherThanLto(input))) >>
        /\ output.table = input

\* a profile that holds `lto` alone has been hashed
C8_Witness ==
    /\ phase = "output"
    /\ input = Table(<< Entry(<< "lto" >>, Bool(<< "true" >>)) >>)
    /\ output.writes = << >>

(***************************************************************************)
(* Claims about the locks and about run, checked under Spec                *)
(***************************************************************************)
HeldOn(triple) == { l \in held : l.triple = triple }

HasReadLock(p, triple) ==
    \E l \in held : l.owner = p /\ l.triple = triple /\ l.mode = "ro"

\* C1: on one sysroot, a write lock on a triple is never held together with
\* another lock (read or write) on that triple; read locks on a triple can be
\* taken while only read locks are held on it; and the locks held on other
\* triples never stand in the way of a lock, of either mode, on a triple on
\* which none is held.
C1_LockExclusion ==
    /\ \A l1 \in held : \A l2 \in held :
          (l1 # l2 /\ l1.triple = l2.triple) => (l1.mode = "ro" /\ l2.mode = "ro")
    /\ \A t \in Triples :
          (\A l \in HeldOn(t) : l.mode = "ro") => CanLock(HomePath(home, t), "ro")
    /\ \A t \in Triples :
          HeldOn(t) = {} => /\ CanLock(HomePath(home, t), "ro")
                            /\ CanLock(HomePath(home, t), "rw")

\* a write lock on one triple is held while another process holds a lock on
\* another triple
C1_Witness ==
    \E l1 \in held : \E l2 \in held :
        /\ l1.owner # l2.owner
        /\ l1.triple # l2.triple
        /\ l1.mode = "rw"

\* C2: while the driver spawned by run is running, the invocation holds a
\* read lock on the host triple and a read lock on the target triple.
C2_DriverRunsUnderReadLocks ==
    \A p \in Procs :
        driver[p].state = "running" =>
            /\ HasReadLock(p, Host)
            /\ HasReadLock(p, target)

\* C3: once run has returned, on any path, the invocation holds no lock.
C3_NoLockOutlivesRun ==
    \A p \in Procs : pc[p] = "returned" => \A l \in held : l.owner # p

\* run took both locks and returned early because the driver could not be
\* spawned
C3_Witness ==
    \E p \in Procs :
        /\ pc[p] = "returned"
        /\ lockres[p].host.kind = "ok"
        /\ lockres[p].target.kind = "ok"
        /\ driver[p].state = "failed"

\* C4: when a lock acquisition of run has failed, the driver is not run and
\* run returns an error, never an exit status.
C4_LockFailureIsFatal ==
    \A p \in Procs :
        (lockres[p].host.kind = "err" \/ lockres[p].target.kind = "err") =>
            /\ driver[p].state = "none"
            /\ pc[p] = "returned" => result[p].kind = "err"

SysrootHasSpace == \E i \in DOMAIN home : Contains(home[i], " ")

RECURSIVE EachFollowedBySpace(_)
EachFollowedBySpace(flags) ==
    IF flags = << >> THEN << >>
    ELSE flags[1] \o << " " >> \o EachFollowedBySpace(Tail(flags))

\* C9: for_xargo fails exactly when the sysroot path has a space in it and
\* XBUILD_ALLOW_SYSROOT_SPACES is unset; otherwise it returns the flags in
\* their order, then "--sysroot", then the path, separated by single spaces.
\* The flags are left as they were, and when it fails inside run, run
\* returns the error with no lock taken and no driver spawned.
C9_ForXargo ==
    /\ rustflags \in FlagLists
    /\ \A p \in Procs :
          rendered[p].kind # "none" =>
              /\ rendered[p].kind = "err" <=> (SysrootHasSpace /\ ~allow)
              /\ rendered[p].kind = "ok" =>
                    rendered[p].value =
                        EachFollowedBySpace(rustflags)
                            \o << "--sysroot", " " >> \o Display(home)
              /\ rendered[p].kind = "err" =>
                    /\ pc[p] = "returned"
                    /\ result[p].kind = "err"
                    /\ lockres[p] = NoLocks
                    /\ driver[p].state = "none"
                    /\ \A l \in held : l.owner # p

\* for_xargo has failed inside run on a sysroot with a space
C9_Witness ==
    \E p \in Procs :
        /\ rendered[p].kind = "err"
        /\ pc[p] = "returned"
        /\ SysrootHasSpace

\* C10: when the driver has run to exit and the wait returned its status,
\* run returns Ok with exactly that status, zero or not; run returns an
\* error only when rendering the flags failed, the driver could not be
\* spawned or the wait on it failed.
C10_ExitStatusIsData ==
    \A p \in Procs :
        /\ (pc[p] = "returned" /\ driver[p].state = "exited") =>
              /\ result[p].kind = "ok"
              /\ result[p].value = driver[p].status
        /\ (pc[p] = "returned" /\ result[p].kind = "err") =>
              \/ rendered[p].kind = "err"
              \/ driver[p].state \in { "failed", "wait_failed" }

\* run has returned after the driver exited with a nonzero status
C10_Witness ==
    \E p \in Procs :
        /\ pc[p] = "returned"
        /\ driver[p].state = "exited"
        /\ driver[p].status # 0

====
